---- MODULE Spec2Model ----
(***************************************************************************)
(* Model of task_2/main.py: the in-memory library (Book, LibraryStorage,   *)
(* LibraryFormatter, Library) and the LibraryManager.run command loop.     *)
(*                                                                         *)
(* Text that the program inspects character by character (input lines,     *)
(* book fields, formatted log messages) is a sequence of one-character     *)
(* strings; prompts and the notice, which are only ever written, are       *)
(* plain strings.  Python lists are objects on a heap, addressed by        *)
(* reference, so that aliasing and copying are distinguishable.            *)
(***************************************************************************)
EXTENDS Integers, Sequences, FiniteSets, TLC

VARIABLES
    heap,      \* list objects: reference -> sequence of Book
    items,     \* LibraryStorage.items: the reference the storage holds
    held,      \* reference a client got from list_items(), or None
    addedAt,   \* history: surviving record -> rank of its last effective add
    op,        \* history: the last operation called, with its arguments
    logged,    \* messages passed to logger.info by the last step
    pc,        \* LibraryManager.run: which input() call is waiting
    command,   \* run's local `command`
    title,     \* run's local `title`
    author,    \* run's local `author`
    line,      \* history: the raw line the last input() call returned
    prompt,    \* the prompt of the input() call that is waiting
    printed    \* what the last step wrote with print()

vars == <<heap, items, held, addedAt, op, logged, pc, command, title, author,
          line, prompt, printed>>

storageVars == <<heap, items, addedAt>>
runVars == <<pc, command, title, author, line, prompt, printed>>

(***************************************************************************)
(* Bounds of the model.                                                    *)
(***************************************************************************)
MaxItems == 3       \* add is offered only while the storage is shorter
MaxCallerLen == 2   \* a client appends to its own list only below this
NumRefs == 3        \* heap cells (storage list, one copy, one being built)

Refs == 1..NumRefs
None == 0
Unset == <<"?">>

(***************************************************************************)
(* Text literals.                                                          *)
(***************************************************************************)
UPPER == <<"A","B","C","D","E","F","G","H","I","J","K","L","M",
           "N","O","P","Q","R","S","T","U","V","W","X","Y","Z">>
LOWER == <<"a","b","c","d","e","f","g","h","i","j","k","l","m",
           "n","o","p","q","r","s","t","u","v","w","x","y","z">>
Whitespace == {" ", "\t"}

s_add == <<"a","d","d">>
s_remove == <<"r","e","m","o","v","e">>
s_show == <<"s","h","o","w">>
s_exit == <<"e","x","i","t">>

CommandPrompt == "Enter command (add, remove, show, exit): "
TitlePrompt == "Enter book title: "
AuthorPrompt == "Enter book author: "
YearPrompt == "Enter book year: "
RemovePrompt == "Enter book title to remove: "
InvalidNotice == "Invalid command. Please try again."

(***************************************************************************)
(* str.strip() and str.lower().                                            *)
(***************************************************************************)
RECURSIVE lstrip(_)
lstrip(s) ==
    IF s # <<>> /\ Head(s) \in Whitespace THEN lstrip(Tail(s)) ELSE s

RECURSIVE rstrip(_)
rstrip(s) ==
    IF s # <<>> /\ s[Len(s)] \in Whitespace
    THEN rstrip(SubSeq(s, 1, Len(s) - 1))
    ELSE s

strip_lowering(s) ==
    LET t == rstrip(lstrip(s))
    IN  [i \in 1..Len(t) |->
            IF \E k \in 1..26 : UPPER[k] = t[i]
            THEN LOWER[CHOOSE k \in 1..26 : UPPER[k] = t[i]]
            ELSE t[i]]

strip(s) == rstrip(lstrip(s))

lower_char(c) ==
    IF \E k \in 1..26 : UPPER[k] = c
    THEN LOWER[CHOOSE k \in 1..26 : UPPER[k] = c]
    ELSE c

lower_identity(s) == s

lower(s) == [i \in 1..Len(s) |-> lower_char(s[i])]

(***************************************************************************)
(* Book: a frozen dataclass; equality is field-wise.                       *)
(***************************************************************************)
Book(t, a, y) == [title |-> t, author |-> a, year |-> y]

Book_str_swapped(book) ==
    <<"T","i","t","l","e",":"," ">> \o book.title
    \o <<",", " ", "A","u","t","h","o","r",":"," ">> \o book.year
    \o <<",", " ", "Y","e","a","r",":"," ">> \o book.author

Book_str(book) ==
    <<"T","i","t","l","e",":"," ">> \o book.title
    \o <<",", " ", "A","u","t","h","o","r",":"," ">> \o book.author
    \o <<",", " ", "Y","e","a","r",":"," ">> \o book.year

(***************************************************************************)
(* The heap.                                                               *)
(***************************************************************************)
\* a cell nothing refers to
NewRef == CHOOSE r \in Refs : r \notin {items, held} /\
              \A q \in Refs : q \notin {items, held} => r <= q

\* cells that are no longer referred to are reclaimed
Collect(h, roots) == [r \in Refs |-> IF r \in roots THEN h[r] ELSE <<>>]

(***************************************************************************)
(* List operations used by LibraryStorage.                                 *)
(***************************************************************************)
Max(S) == CHOOSE n \in S : \A m \in S : m <= n

\* `item in self.items` on fresh Book objects, were Book compared by identity
contains_by_identity(seq, item) == FALSE

\* `item in self.items`, were two books equal as soon as their titles are
contains_by_title(seq, item) == \E i \in 1..Len(seq) : seq[i].title = item.title

\* `item in self.items`: some element equals item (dataclass equality)
contains(seq, item) == \E i \in 1..Len(seq) : seq[i] = item

\* list.insert(0, item) in place of list.append(item)
prepend(seq, item) == <<item>> \o seq

\* self.items.append(item)
append(seq, item) == seq \o <<item>>

\* list.remove of the first match in place of the filter
RECURSIVE without_first_title(_, _)
without_first_title(seq, t) ==
    IF seq = <<>> THEN <<>>
    ELSE IF Head(seq).title = t THEN Tail(seq)
    ELSE <<Head(seq)>> \o without_first_title(Tail(seq), t)

\* [book for book in self.items if book.title != title]
RECURSIVE without_title(_, _)
without_title(seq, t) ==
    IF seq = <<>> THEN <<>>
    ELSE IF Head(seq).title # t
         THEN <<Head(seq)>> \o without_title(Tail(seq), t)
         ELSE without_title(Tail(seq), t)

\* self.items.copy()
copy(seq) == [i \in 1..Len(seq) |-> seq[i]]

(***************************************************************************)
(* History of effective adds: a record that is not among the survivors     *)
(* gets the next rank when it is added; ranks are renumbered 1..n when     *)
(* records are removed.                                                    *)
(***************************************************************************)
Survivors == DOMAIN addedAt

RankAfterAdd(item) ==
    IF item \in Survivors THEN addedAt
    ELSE (item :> (Max({0} \cup {addedAt[b] : b \in Survivors}) + 1)) @@ addedAt

RankAfterRemove(t) ==
    LET keep == {b \in Survivors : b.title # t}
    IN  [b \in keep |-> Cardinality({c \in keep : addedAt[c] <= addedAt[b]})]

(***************************************************************************)
(* LibraryStorage.                                                         *)
(***************************************************************************)
add_item(item) ==
    /\ heap' = IF ~contains(heap[items], item)
               THEN [heap EXCEPT ![items] = append(@, item)]
               ELSE heap
    /\ items' = items
    /\ addedAt' = RankAfterAdd(item)

remove_item_by_title(t) ==
    LET r == NewRef
    IN  /\ heap' = Collect([heap EXCEPT ![r] = without_title(heap[items], t)],
                           {r, held})
        /\ items' = r
        /\ addedAt' = RankAfterRemove(t)

\* list_items handing out the storage's own list
list_items_alias == items

\* the list object list_items returns: a new one
list_items_ref == NewRef

\* the heap once list_items has filled the list it returns
list_items_heap == [heap EXCEPT ![list_items_ref] = copy(heap[items])]

(***************************************************************************)
(* A client of LibraryStorage: it calls the three methods with records     *)
(* and titles of its choice, keeps the list list_items() returned and      *)
(* changes that list.                                                      *)
(***************************************************************************)
t_A == <<"A">>
t_a == <<"a">>
t_B == <<"B">>

\* pairwise different in exactly one field from the first
Books == { Book(t_A, <<"X">>, <<"1">>), Book(t_A, <<"Y">>, <<"1">>),
           Book(t_A, <<"X">>, <<"2">>), Book(t_a, <<"X">>, <<"1">>) }
Titles == {t_A, t_a, t_B}

Call(name, args) == [name |-> name, args |-> args]

AddItem(b) ==
    /\ Len(heap[items]) < MaxItems
    /\ add_item(b)
    /\ op' = Call("add_item", <<b>>)
    /\ UNCHANGED <<held, logged, runVars>>

RemoveItemByTitle(t) ==
    /\ remove_item_by_title(t)
    /\ op' = Call("remove_item_by_title", <<t>>)
    /\ UNCHANGED <<held, logged, runVars>>

ListItems ==
    /\ held' = list_items_ref
    /\ heap' = Collect(list_items_heap, {items, list_items_ref})
    /\ op' = Call("list_items", <<>>)
    /\ UNCHANGED <<items, addedAt, logged, runVars>>

CallerAppend(b) ==
    /\ held # None
    /\ Len(heap[held]) < MaxCallerLen
    /\ heap' = [heap EXCEPT ![held] = @ \o <<b>>]
    /\ op' = Call("caller_mutate", <<"append">>)
    /\ UNCHANGED <<items, held, addedAt, logged, runVars>>

CallerPop ==
    /\ held # None
    /\ heap[held] # <<>>
    /\ heap' = [heap EXCEPT ![held] = SubSeq(@, 1, Len(@) - 1)]
    /\ op' = Call("caller_mutate", <<"pop">>)
    /\ UNCHANGED <<items, held, addedAt, logged, runVars>>

CallerReverse ==
    /\ held # None
    /\ Len(heap[held]) > 1
    /\ heap' = [heap EXCEPT ![held] = [i \in 1..Len(@) |-> @[Len(@) + 1 - i]]]
    /\ op' = Call("caller_mutate", <<"reverse">>)
    /\ UNCHANGED <<items, held, addedAt, logged, runVars>>

\* after LibraryStorage(): one empty list, no client reference, no loop
Init ==
    /\ heap = [r \in Refs |-> <<>>]
    /\ items = 1
    /\ held = None
    /\ addedAt = <<>>
    /\ op = Call("init", <<>>)
    /\ logged = <<>>
    /\ pc = "idle"
    /\ command = Unset
    /\ title = Unset
    /\ author = Unset
    /\ line = Unset
    /\ prompt = ""
    /\ printed = <<>>

Next ==
    \/ \E b \in Books : AddItem(b)
    \/ \E t \in Titles : RemoveItemByTitle(t)
    \/ ListItems
    \/ \E b \in Books : CallerAppend(b)
    \/ CallerPop
    \/ CallerReverse

Spec == Init /\ [][Next]_vars

(***************************************************************************)
(* LibraryFormatter and Library.                                           *)
(***************************************************************************)
\* for book in items: logger.info("Book: %s", book)
log_items(seq) ==
    [i \in 1..Len(seq) |-> <<"B","o","o","k",":"," ">> \o Book_str(seq[i])]

add_book(t, a, y) ==
    /\ add_item(Book(t, a, y))
    /\ op' = Call("add_book", <<t, a, y>>)

remove_book(t) ==
    /\ remove_item_by_title(t)
    /\ op' = Call("remove_book", <<t>>)

\* books = list_items(); log_items(books); books is dropped on return
show_books ==
    LET books == list_items_ref
        h == list_items_heap
    IN  /\ logged' = log_items(h[books])
        /\ heap' = Collect(h, {items, held})
        /\ op' = Call("show_books", <<>>)
        /\ UNCHANGED <<items, addedAt>>

(***************************************************************************)
(* LibraryManager.run.  Each step is one input() call returning a line,    *)
(* followed by the code up to the next input() call or the break.          *)
(***************************************************************************)
l_add == <<"a","d","d">>
l_Remove == <<" ","R","e","m","o","v","e">>
l_show == <<"s","h","o","w">>
l_exit == <<"e","x","i","t">>
l_EXIT == <<" ","E","X","I","T","\t">>
l_foo == <<"f","o","o">>
l_empty == <<>>

Lines == {l_add, l_Remove, l_show, l_exit, l_EXIT, l_foo, l_empty}
ArgLines == {l_EXIT, l_show}

NoCall == Call("none", <<>>)

\* case "add": the first of its three input() calls is waiting
case_add ==
    /\ pc' = "title"
    /\ prompt' = TitlePrompt
    /\ op' = NoCall
    /\ printed' = <<>>
    /\ logged' = <<>>
    /\ UNCHANGED <<storageVars, title, author>>

\* case "remove": its input() call is waiting
case_remove ==
    /\ pc' = "remove_title"
    /\ prompt' = RemovePrompt
    /\ op' = NoCall
    /\ printed' = <<>>
    /\ logged' = <<>>
    /\ UNCHANGED <<storageVars, title, author>>

\* case "show"
case_show ==
    /\ show_books
    /\ pc' = "command"
    /\ prompt' = CommandPrompt
    /\ printed' = <<>>
    /\ UNCHANGED <<title, author>>

\* case "exit": break
case_exit ==
    /\ pc' = "done"
    /\ prompt' = ""
    /\ op' = NoCall
    /\ printed' = <<>>
    /\ logged' = <<>>
    /\ UNCHANGED <<storageVars, title, author>>

\* the default case, were it to leave the loop after the notice
case_default_break ==
    /\ printed' = <<InvalidNotice>>
    /\ pc' = "done"
    /\ prompt' = ""
    /\ op' = NoCall
    /\ logged' = <<>>
    /\ UNCHANGED <<storageVars, title, author>>

\* case _: print the notice, go round the loop
case_default ==
    /\ printed' = <<InvalidNotice>>
    /\ pc' = "command"
    /\ prompt' = CommandPrompt
    /\ op' = NoCall
    /\ logged' = <<>>
    /\ UNCHANGED <<storageVars, title, author>>

\* command = input(...).strip().lower(); match command
ReadCommand(l) ==
    /\ pc = "command"
    /\ line' = l
    /\ command' = lower(strip(l))
    /\ \/ command' = s_add /\ Len(heap[items]) < MaxItems /\ case_add
       \/ command' = s_remove /\ case_remove
       \/ command' = s_show /\ case_show
       \/ command' = s_exit /\ case_exit
       \/ command' \notin {s_add, s_remove, s_show, s_exit} /\ case_default
    /\ UNCHANGED held

\* title = input("Enter book title: ").strip()
ReadTitle(l) ==
    /\ pc = "title"
    /\ line' = l
    /\ title' = strip(l)
    /\ pc' = "author"
    /\ prompt' = AuthorPrompt
    /\ op' = NoCall
    /\ printed' = <<>>
    /\ logged' = <<>>
    /\ UNCHANGED <<storageVars, held, command, author>>

\* author = input("Enter book author: ").strip()
ReadAuthor(l) ==
    /\ pc = "author"
    /\ line' = l
    /\ author' = strip(l)
    /\ pc' = "year"
    /\ prompt' = YearPrompt
    /\ op' = NoCall
    /\ printed' = <<>>
    /\ logged' = <<>>
    /\ UNCHANGED <<storageVars, held, command, title>>

\* year = input("Enter book year: ").strip(); add_book(title, author, year)
ReadYear(l) ==
    /\ pc = "year"
    /\ line' = l
    /\ add_book(title, author, strip(l))
    /\ pc' = "command"
    /\ prompt' = CommandPrompt
    /\ printed' = <<>>
    /\ logged' = <<>>
    /\ UNCHANGED <<held, command, title, author>>

\* title = input("Enter book title to remove: ").strip(); remove_book(title)
ReadRemoveTitle(l) ==
    /\ pc = "remove_title"
    /\ line' = l
    /\ title' = strip(l)
    /\ remove_book(title')
    /\ pc' = "command"
    /\ prompt' = CommandPrompt
    /\ printed' = <<>>
    /\ logged' = <<>>
    /\ UNCHANGED <<held, command, author>>

\* main(): a new storage, and run() waiting in its first input() call
InitRun ==
    /\ heap = [r \in Refs |-> <<>>]
    /\ items = 1
    /\ held = None
    /\ addedAt = <<>>
    /\ op = Call("init", <<>>)
    /\ logged = <<>>
    /\ pc = "command"
    /\ command = Unset
    /\ title = Unset
    /\ author = Unset
    /\ line = Unset
    /\ prompt = CommandPrompt
    /\ printed = <<>>

NextRun ==
    \/ \E l \in Lines : ReadCommand(l)
    \/ \E l \in ArgLines : ReadTitle(l)
    \/ \E l \in ArgLines : ReadAuthor(l)
    \/ \E l \in ArgLines : ReadYear(l)
    \/ \E l \in ArgLines : ReadRemoveTitle(l)

SpecRun == InitRun /\ [][NextRun]_vars

(***************************************************************************)
(* Properties.                                                             *)
(***************************************************************************)
Stored == heap[items]
b_AX1 == Book(t_A, <<"X">>, <<"1">>)
b_AY1 == Book(t_A, <<"Y">>, <<"1">>)
b_aX1 == Book(t_a, <<"X">>, <<"1">>)
w_EXIT == <<"E","X","I","T">>

\* c and d are the same letter, d being the lower-case one
SameLetter(c, d) == c = d \/ \E k \in 1..26 : UPPER[k] = c /\ LOWER[k] = d

\* l is the word w in any letter case, with only whitespace around it
NormalisesTo(l, w) ==
    \E i \in 0..Len(l) :
        /\ Len(l) >= i + Len(w)
        /\ \A k \in 1..Len(l) :
              IF k <= i \/ k > i + Len(w)
              THEN l[k] \in Whitespace
              ELSE SameLetter(l[k], w[k - i])

\* s is l without the whitespace at its two ends
IsTrimOf(s, l) ==
    /\ s # <<>> => s[1] \notin Whitespace /\ s[Len(s)] \notin Whitespace
    /\ \E i \in 0..Len(l) :
          /\ Len(l) >= i + Len(s)
          /\ \A k \in 1..Len(l) :
                IF k <= i \/ k > i + Len(s)
                THEN l[k] \in Whitespace
                ELSE l[k] = s[k - i]

\* C1: in every state reached by add_item and remove_item_by_title calls on
\* a storage that starts empty, no two stored elements are equal.
C1_NoTwoEqual ==
    \A i, j \in 1..Len(Stored) : i # j => Stored[i] # Stored[j]

\* the record stored first was added again while two are stored
C1_Witness ==
    /\ op.name = "add_item"
    /\ Len(Stored) = 2
    /\ op.args[1] = Stored[1]

\* C2: add_item(r) appends r at the end iff no stored record has r's title,
\* author and year; otherwise the sequence is left as it is.
C2_AddAppendsIffNew ==
    [][op'.name = "add_item" =>
        LET r == op'.args[1]
            old == heap[items]
            new == heap'[items']
        IN  IF \E i \in 1..Len(old) : /\ old[i].title = r.title
                                      /\ old[i].author = r.author
                                      /\ old[i].year = r.year
            THEN new = old
            ELSE /\ Len(new) = Len(old) + 1
                 /\ new[Len(new)] = r
                 /\ \A i \in 1..Len(old) : new[i] = old[i]]_vars

\* two records that differ in the author only are both stored
C2_Witness ==
    /\ op = Call("add_item", <<b_AY1>>)
    /\ Stored = <<b_AX1, b_AY1>>

\* C3: remove_item_by_title(t) leaves exactly the records whose title is
\* not t (compared exactly), in their previous relative order; with no
\* match the sequence is the same.
C3_RemoveIsFilter ==
    [][op'.name = "remove_item_by_title" =>
        LET t == op'.args[1]
            old == heap[items]
            new == heap'[items']
            keep == {i \in 1..Len(old) : old[i].title # t}
        IN  /\ Len(new) = Cardinality(keep)
            /\ \A i \in keep : new[Cardinality({j \in keep : j <= i})] = old[i]
            /\ (keep = 1..Len(old) => new = old)]_vars

\* both "A" records went, the "a" record between them stayed (the client's
\* copy shows what was stored)
C3_Witness ==
    /\ op = Call("remove_item_by_title", <<t_A>>)
    /\ held # None
    /\ heap[held] = <<b_AX1, b_aX1, b_AY1>>
    /\ Stored = <<b_aX1>>

\* C4: the stored sequence, and what list_items() returns, is exactly the
\* surviving records in the order of their last effective add.
C4_SurvivorsInAddOrder ==
    /\ {Stored[i] : i \in 1..Len(Stored)} = Survivors
    /\ Len(Stored) = Cardinality(Survivors)
    /\ \A i, j \in 1..Len(Stored) :
          i < j => addedAt[Stored[i]] < addedAt[Stored[j]]
    /\ op.name = "list_items" => heap[held] = Stored

\* a record listed first earlier is last after being added again
C4_Witness ==
    /\ op = Call("add_item", <<b_AX1>>)
    /\ held # None
    /\ heap[held] = <<b_AX1, b_aX1>>
    /\ Stored = <<b_aX1, b_AX1>>

\* C5 as stated: through add_book and remove_book, at most one stored
\* record has any given title.
C5_OneRecordPerTitle ==
    \A i, j \in 1..Len(Stored) : Stored[i].title = Stored[j].title => i = j

\* C5 amended: stored records with the same title differ in author or in
\* year, so remove_book(title) may have several records to remove.
C5_SameTitleDiffersElsewhere ==
    \A i, j \in 1..Len(Stored) :
        (i # j /\ Stored[i].title = Stored[j].title) =>
            (Stored[i].author # Stored[j].author \/ Stored[i].year # Stored[j].year)

\* two records with the title EXIT are stored after an add of one of them
C5_Witness ==
    /\ op.name = "add_book"
    /\ Len(Stored) = 2
    /\ Stored[1].title = w_EXIT
    /\ Stored[2].title = w_EXIT

\* Title: <title>, Author: <author>, Year: <year>
LineOf(b) ==
    <<"T","i","t","l","e",":"," ">> \o b.title
    \o <<",", " ", "A","u","t","h","o","r",":"," ">> \o b.author
    \o <<",", " ", "Y","e","a","r",":"," ">> \o b.year

C7_ListIsACopy ==
    [][/\ op'.name = "list_items" =>
            /\ held' # items'
            /\ heap'[held'] = heap[items]
            /\ items' = items
            /\ heap'[items'] = heap[items]
       /\ op'.name = "caller_mutate" =>
            /\ items' = items
            /\ heap'[items'] = heap[items]]_vars

\* the caller has changed its list, which now differs from the stored one
C7_Witness ==
    /\ op.name = "caller_mutate"
    /\ held # None
    /\ Len(Stored) = 2
    /\ heap[held] # Stored

IsCommandLine(l) ==
    \/ NormalisesTo(l, s_add)
    \/ NormalisesTo(l, s_remove)
    \/ NormalisesTo(l, s_show)
    \/ NormalisesTo(l, s_exit)

\* C8: a command line that is none of add, remove, show, exit once trimmed
\* and lower-cased prints the notice, calls no Library operation, leaves
\* the storage as it is and issues the command prompt again.
C8_InvalidCommand ==
    [][(pc = "command" /\ ~IsCommandLine(line')) =>
        /\ printed' = <<InvalidNotice>>
        /\ op' = NoCall
        /\ items' = items
        /\ heap' = heap
        /\ logged' = <<>>
        /\ pc' = "command"
        /\ prompt' = CommandPrompt]_vars

\* foo was read while a record is stored
C8_Witness ==
    /\ pc = "command"
    /\ line = l_foo
    /\ printed = <<InvalidNotice>>
    /\ Len(Stored) = 1

\* C9: a command line that is exit once trimmed and lower-cased ends the
\* loop: no prompt, no Library call, no further line read; and no other
\* line ends it.
C9_ExitEndsLoop ==
    [][/\ (pc = "command" /\ NormalisesTo(line', s_exit)) =>
            /\ pc' = "done"
            /\ prompt' = ""
            /\ op' = NoCall
            /\ items' = items
            /\ heap' = heap
       /\ pc' = "done" => (pc = "command" /\ NormalisesTo(line', s_exit))
       /\ (pc = "command" /\ ~NormalisesTo(line', s_exit)) =>
            pc' \in {"command", "title", "remove_title"}
       /\ pc # "done"]_vars

\* the loop ended on the line " EXIT<tab>" with a record stored
C9_Witness ==
    /\ pc = "done"
    /\ line = l_EXIT
    /\ prompt = ""
    /\ Len(Stored) = 1

\* C10: the lines read after add and after remove are arguments: they are
\* trimmed, not lower-cased, never end the loop nor show, and the line after
\* them is read as a command.
C10_ArgumentsAreNotCommands ==
    [][/\ pc = "title" =>
            /\ pc' = "author"
            /\ IsTrimOf(title', line')
            /\ op' = NoCall
            /\ logged' = <<>>
            /\ heap' = heap /\ items' = items
       /\ pc = "author" =>
            /\ pc' = "year"
            /\ IsTrimOf(author', line')
            /\ title' = title
            /\ op' = NoCall
            /\ logged' = <<>>
            /\ heap' = heap /\ items' = items
       /\ pc = "year" =>
            /\ pc' = "command"
            /\ prompt' = CommandPrompt
            /\ op'.name = "add_book"
            /\ op'.args[1] = title
            /\ op'.args[2] = author
            /\ IsTrimOf(op'.args[3], line')
            /\ logged' = <<>>
            /\ \E i \in 1..Len(heap'[items']) :
                  heap'[items'][i] = Book(title, author, op'.args[3])
       /\ pc = "remove_title" =>
            /\ pc' = "command"
            /\ prompt' = CommandPrompt
            /\ op'.name = "remove_book"
            /\ IsTrimOf(op'.args[1], line')
            /\ logged' = <<>>]_vars

\* EXIT, show, EXIT were given as title, author and year and are stored
C10_Witness ==
    /\ pc = "command"
    /\ line = l_EXIT
    /\ op = Call("add_book", <<w_EXIT, s_show, w_EXIT>>)
    /\ Stored[Len(Stored)] = Book(w_EXIT, s_show, w_EXIT)

====
